---- MODULE Spec2Model ----
(***************************************************************************)
(* Verification model of the RadiXplore pipeline:                          *)
(*   - pipeline/ner_model.py   convert_json_to_iob (annotation alignment)  *)
(*   - pipeline/geolocator.py  location extraction, geocoding client,      *)
(*                             disambiguation scorer, geolocation run      *)
(*   - main.py                 steps 4 to 6 of main                        *)
(* Python strings are modelled as sequences of one-character strings, so   *)
(* that split, find, lower and substring tests are computed, not assumed.  *)
(***************************************************************************)
EXTENDS Integers, Sequences, FiniteSets, TLC

VARIABLES
    \* ---- convert_json_to_iob (one annotation record) ----
    ipc,            \* position in convert_json_to_iob: "idle", "align", "done"
    text,           \* record["data"]["text"]
    tokens,         \* text.split()
    token_spans,    \* [(start, end)] computed by the find loop
    tags,           \* the tag list being written
    ann,            \* the annotation of the latest iteration of `for ann in annotations`
    prev_tags,      \* tags before that iteration
    n_anns,         \* annotations iterated so far
    n_project,      \* of those, PROJECT annotations with a start
    processed_records,
    \* ---- simulate_llm_disambiguation (one call) ----
    dpc,            \* "idle" before the call, "done" after it
    context,        \* the context argument
    candidates,     \* the candidates argument
    result,         \* the dict returned
    \* ---- main, generate_ner_output, run_geolocation_pipeline ----
    pc,             \* position of the process running main
    run,            \* runs of main started so far
    ner_file,       \* NER_OUTPUT_FILE
    out_file,       \* FINAL_OUTPUT_FILE
    records,        \* records read from the input file
    rec_i,          \* i: index of the record of the current iteration (from 1)
    location_names, \* names of the current record not yet geocoded
    all_candidates, \* candidates pooled for the current record
    since_call,     \* seconds since the previous backend call of this run was issued
    call_gap,       \* since_call as it was when the latest backend call was issued
    last_call,      \* what the latest geocode_location call met and returned
    n_calls,        \* geocode_location calls of this run
    n_failed,       \* of those, calls whose backend request raised
    geolocated      \* indices of the records of this run with a non-empty pool

ivars == <<ipc, text, tokens, token_spans, tags, ann, prev_tags, n_anns, n_project,
           processed_records>>
dvars == <<dpc, context, candidates, result>>
pvars == <<pc, run, ner_file, out_file, records, rec_i, location_names, all_candidates,
           since_call, call_gap, last_call, n_calls, n_failed, geolocated>>
vars == <<ivars, dvars, pvars>>

-----------------------------------------------------------------------------
(* Bounds of the model *)

MaxLen == 5         \* longest annotation text, in characters
MaxAnns == 2        \* most annotations of one record

-----------------------------------------------------------------------------
(* Python string primitives *)

Space == " "

IsSpace(c) == c = Space

Min(a, b) == IF a < b THEN a ELSE b
Max(a, b) == IF a > b THEN a ELSE b

\* str.split(): the maximal runs of non-whitespace characters, left to right
RECURSIVE SplitFrom(_, _, _, _)
SplitFrom(s, i, cur, acc) ==
    IF i > Len(s)
    THEN IF cur = <<>> THEN acc ELSE Append(acc, cur)
    ELSE IF IsSpace(s[i])
         THEN SplitFrom(s, i + 1, <<>>, IF cur = <<>> THEN acc ELSE Append(acc, cur))
         ELSE SplitFrom(s, i + 1, Append(cur, s[i]), acc)

split(s) == SplitFrom(s, 1, <<>>, <<>>)

\* s[i:i+len(sub)] == sub, with i a 0-based offset
MatchesAt(s, sub, i) ==
    /\ i >= 0
    /\ i + Len(sub) <= Len(s)
    /\ \A k \in 1..Len(sub) : s[i + k] = sub[k]

\* str.find(sub, pos): the lowest 0-based offset >= pos where sub occurs, else -1
\* variant: a search that starts at offset 0 whatever pos is
findFrom0(s, sub, pos) ==
    LET hits == {i \in 0..Len(s) : MatchesAt(s, sub, i)}
    IN  IF hits = {} THEN -1 ELSE CHOOSE i \in hits : \A j \in hits : i <= j

find(s, sub, pos) ==
    LET hits == {i \in pos..Len(s) : MatchesAt(s, sub, i)}
    IN  IF hits = {} THEN -1 ELSE CHOOSE i \in hits : \A j \in hits : i <= j

-----------------------------------------------------------------------------
(* Python string primitives used by geolocator.py *)

UpperLetters ==
    <<"A", "B", "C", "D", "E", "F", "G", "H", "I", "J", "K",
      "L", "M", "N", "O", "P", "Q", "R", "S", "T", "U", "V", "W", "X", "Y", "Z">>

LowerLetters ==
    <<"a", "b", "c", "d", "e", "f", "g", "h", "i", "j", "k",
      "l", "m", "n", "o", "p", "q", "r", "s", "t", "u", "v", "w", "x", "y", "z">>

NumLetters == Len(UpperLetters)

UpperSet == {UpperLetters[k] : k \in 1..NumLetters}
LowerSet == {LowerLetters[k] : k \in 1..NumLetters}

IsUpper(c) == c \in UpperSet
IsLower(c) == c \in LowerSet
IsLetter(c) == IsUpper(c) \/ IsLower(c)

UpperToLower ==
    [c \in UpperSet |-> LowerLetters[CHOOSE k \in 1..NumLetters : UpperLetters[k] = c]]

lowerChar(c) == IF IsUpper(c) THEN UpperToLower[c] ELSE c

\* str.lower()
lower(s) == [k \in 1..Len(s) |-> lowerChar(s[k])]

\* `sub in s`
Contains(s, sub) == \E i \in 0..(Len(s) - Len(sub)) : MatchesAt(s, sub, i)

\* string literals of geolocator.py
\* "western australia"
Lit_western_australia ==
    <<"w", "e", "s", "t", "e", "r", "n", " ", "a", "u", "s", "t", "r", "a", "l", "i", "a">>
\* "australia"
Lit_australia ==
    <<"a", "u", "s", "t", "r", "a", "l", "i", "a">>
\* "wa"
Lit_wa ==
    <<"w", "a">>
\* "WA"
Lit_WA ==
    <<"W", "A">>
\* "Western Australia"
Lit_Western_Australia ==
    <<"W", "e", "s", "t", "e", "r", "n", " ", "A", "u", "s", "t", "r", "a", "l", "i", "a">>

\* contexts (context_sentence of a mention) the model draws from
\* "The project lies in WA near Perth"
Ctx_WA_Perth ==
    <<"T", "h", "e", " ", "p", "r", "o", "j", "e", "c", "t", " ", "l", "i", "e", "s", " ",
      "i", "n", " ", "W", "A", " ", "n", "e", "a", "r", " ", "P", "e", "r", "t", "h">>

\* "Gold Project in Western Australia"
Ctx_WesternAustralia ==
    <<"G", "o", "l", "d", " ", "P", "r", "o", "j", "e", "c", "t", " ", "i", "n", " ", "W",
      "e", "s", "t", "e", "r", "n", " ", "A", "u", "s", "t", "r", "a", "l", "i", "a">>

\* "Nickel near Mt Isa, Australia"
Ctx_Australia ==
    <<"N", "i", "c", "k", "e", "l", " ", "n", "e", "a", "r", " ", "M", "t", " ", "I", "s",
      "a", ",", " ", "A", "u", "s", "t", "r", "a", "l", "i", "a">>

\* "The Project near Perth"
Ctx_NoCue ==
    <<"T", "h", "e", " ", "P", "r", "o", "j", "e", "c", "t", " ", "n", "e", "a", "r", " ",
      "P", "e", "r", "t", "h">>

\* "Drilling in Iowa"
Ctx_Iowa ==
    <<"D", "r", "i", "l", "l", "i", "n", "g", " ", "i", "n", " ", "I", "o", "w", "a">>

\* "the site is remote"
Ctx_NoNames ==
    <<"t", "h", "e", " ", "s", "i", "t", "e", " ", "i", "s", " ", "r", "e", "m", "o", "t",
      "e">>

Contexts ==
    {Ctx_WA_Perth, Ctx_WesternAustralia, Ctx_Australia, Ctx_NoCue, Ctx_Iowa, Ctx_NoNames}

\* addresses the geocoding backend answers with
\* "Perth, Western Australia, Australia"
Addr_Perth_WA ==
    <<"P", "e", "r", "t", "h", ",", " ", "W", "e", "s", "t", "e", "r", "n", " ", "A", "u",
      "s", "t", "r", "a", "l", "i", "a", ",", " ", "A", "u", "s", "t", "r", "a", "l", "i",
      "a">>

\* "Perth, UK"
Addr_Perth_UK ==
    <<"P", "e", "r", "t", "h", ",", " ", "U", "K">>

\* "Perth, Australia"
Addr_Perth_AU ==
    <<"P", "e", "r", "t", "h", ",", " ", "A", "u", "s", "t", "r", "a", "l", "i", "a">>

\* "Western Australia, Australia"
Addr_WA ==
    <<"W", "e", "s", "t", "e", "r", "n", " ", "A", "u", "s", "t", "r", "a", "l", "i", "a",
      ",", " ", "A", "u", "s", "t", "r", "a", "l", "i", "a">>


-----------------------------------------------------------------------------
(* convert_json_to_iob *)

NoneVal == -1       \* stands for Python's None of a missing "start"

\* the loop `for token in tokens` computing token_spans
RECURSIVE SpanLoop(_, _, _, _, _)
SpanLoop(s, toks, k, current_pos, spans) ==
    IF k > Len(toks) THEN spans
    ELSE LET start == find(s, toks[k], current_pos)
         IN  IF start = -1
             THEN SpanLoop(s, toks, k + 1, current_pos, spans)
             ELSE SpanLoop(s, toks, k + 1, start + Len(toks[k]),
                           Append(spans, <<start, start + Len(toks[k])>>))

TokenSpans(s) == SpanLoop(s, split(s), 1, 0, <<>>)

\* max(start_char, token_start) < min(end_char, token_end)
Overlap(start_char, end_char, span) ==
    Max(start_char, span[1]) < Min(end_char, span[2])

\* variant: the two tags exchanged
TagSwapped(first) == IF first THEN "I-PROJECT" ELSE "B-PROJECT"

\* f"B-{label}" if first else f"I-{label}", with label == "PROJECT"
Tag(first) == IF first THEN "B-PROJECT" ELSE "I-PROJECT"

\* the loop `for i, (token_start, token_end) in enumerate(token_spans)`
RECURSIVE TagLoop(_, _, _, _, _)
TagLoop(a, spans, i, first, tg) ==
    IF i > Len(spans) THEN tg
    ELSE IF Overlap(a.start, a.end, spans[i])
         THEN TagLoop(a, spans, i + 1, FALSE, [tg EXCEPT ![i] = Tag(first)])
         ELSE TagLoop(a, spans, i + 1, first, tg)

\* variant: no annotation is skipped
SkipsNothing(a) == FALSE

\* `if label != "PROJECT" or start_char is None: continue`
Skips(a) == a.label # "PROJECT" \/ a.start = NoneVal

\* one iteration of `for ann in annotations`
ApplyAnnotation(a, spans, tg) ==
    IF Skips(a) THEN tg ELSE TagLoop(a, spans, 1, TRUE, tg)

Chars == {"a", Space}

RECURSIVE StringsUpTo(_)
StringsUpTo(n) ==
    IF n = 0 THEN {<<>>}
    ELSE LET shorter == StringsUpTo(n - 1)
         IN  shorter \cup {Append(s, c) : s \in {t \in shorter : Len(t) = n - 1}, c \in Chars}

Texts == StringsUpTo(MaxLen)

Labels == {"PROJECT", "LOCATION"}

\* annotation values: spans with 0 <= start < end <= MaxLen, and one with no start
Annotations ==
    {a \in [start : 0..MaxLen, end : 0..MaxLen, label : Labels] : a.start < a.end}
    \cup {[start |-> NoneVal, end |-> NoneVal, label |-> "PROJECT"]}

NoAnn == [start |-> NoneVal, end |-> NoneVal, label |-> "none"]

\* lines 23-35: an empty text is skipped; otherwise tokens, tags and token_spans
LoadRecord ==
    /\ ipc = "idle"
    /\ IF text = <<>>
       THEN /\ ipc' = "done"
            /\ UNCHANGED <<tokens, tags, token_spans, prev_tags>>
       ELSE /\ ipc' = "align"
            /\ tokens' = split(text)
            /\ tags' = [k \in 1..Len(split(text)) |-> "O"]
            /\ prev_tags' = [k \in 1..Len(split(text)) |-> "O"]
            /\ token_spans' = TokenSpans(text)
    /\ UNCHANGED <<text, ann, n_anns, n_project, processed_records>>
    /\ UNCHANGED <<dvars, pvars>>

\* lines 37-46: the next annotation of the record's list
AnnotationStep ==
    /\ ipc = "align"
    /\ n_anns < MaxAnns
    /\ \E a \in Annotations :
        /\ ann' = a
        /\ prev_tags' = tags
        /\ tags' = ApplyAnnotation(a, token_spans, tags)
        /\ n_project' = IF Skips(a) THEN n_project ELSE n_project + 1
    /\ n_anns' = n_anns + 1
    /\ UNCHANGED <<ipc, text, tokens, token_spans, processed_records>>
    /\ UNCHANGED <<dvars, pvars>>

\* line 47: the annotation list is exhausted
AppendRecord ==
    /\ ipc = "align"
    /\ ipc' = "done"
    /\ processed_records' = Append(processed_records, [tokens |-> tokens, ner_tags |-> tags])
    /\ UNCHANGED <<text, tokens, token_spans, tags, ann, prev_tags, n_anns, n_project>>
    /\ UNCHANGED <<dvars, pvars>>

IobNext == LoadRecord \/ AnnotationStep \/ AppendRecord

-----------------------------------------------------------------------------
(* Claims about convert_json_to_iob, checked under SpecIob *)

\* the whitespace tokens of s as character intervals [b, e), stated directly:
\* a maximal run of non-whitespace characters
WordIntervals(s) ==
    {iv \in (0..Len(s)) \X (0..Len(s)) :
        /\ iv[1] < iv[2]
        /\ \A k \in (iv[1] + 1)..iv[2] : s[k] # Space
        /\ (iv[1] = 0 \/ s[iv[1]] = Space)
        /\ (iv[2] = Len(s) \/ s[iv[2] + 1] = Space)}

\* the k-th of them, left to right
WordInterval(s, k) ==
    CHOOSE iv \in WordIntervals(s) :
        Cardinality({w \in WordIntervals(s) : w[1] < iv[1]}) = k - 1

\* the tokens whose interval the annotation a overlaps, strictly
Covered(a) ==
    {k \in 1..Len(tokens) :
        LET iv == WordInterval(text, k)
        IN  (IF a.start > iv[1] THEN a.start ELSE iv[1]) <
            (IF a.end < iv[2] THEN a.end ELSE iv[2])}

IsFirstOf(k, S) == k \in S /\ \A j \in S : k <= j

Aligned == ipc \in {"align", "done"} /\ text # <<>>

\* C1: after a single PROJECT annotation (start < end), the first token its
\* interval overlaps is B-PROJECT, the other overlapped tokens are I-PROJECT,
\* the overlapped tokens are consecutive, and every other token is O.
C1_SingleAnnotationBIO ==
    (Aligned /\ n_project = 1 /\ ann.label = "PROJECT" /\ ann.start # NoneVal) =>
        /\ Len(tags) = Len(tokens)
        /\ Cardinality(WordIntervals(text)) = Len(tokens)
        /\ \A k \in Covered(ann), j \in Covered(ann), m \in 1..Len(tokens) :
                (k < m /\ m < j) => m \in Covered(ann)
        /\ \A k \in 1..Len(tokens) :
                tags[k] = IF k \notin Covered(ann) THEN "O"
                          ELSE IF IsFirstOf(k, Covered(ann)) THEN "B-PROJECT"
                          ELSE "I-PROJECT"

\* C1 witness: one annotation over the first two of three tokens
C1_Witness ==
    /\ Aligned /\ n_project = 1 /\ ann.label = "PROJECT"
    /\ Len(tokens) = 3
    /\ Cardinality(Covered(ann)) = 2
    /\ tags = <<"B-PROJECT", "I-PROJECT", "O">>

\* C9: an iteration over a PROJECT annotation overwrites the tag of every token
\* it overlaps (B-PROJECT on its first overlapped token, I-PROJECT on the
\* others) whatever earlier annotations wrote there; every other token keeps
\* the tag it had; an annotation with another label changes no tag.
C9_LastWriteWins ==
    (Aligned /\ n_anns >= 1) =>
        /\ Len(tags) = Len(prev_tags)
        /\ \A k \in 1..Len(tokens) :
                IF ann.label = "PROJECT" /\ ann.start # NoneVal /\ k \in Covered(ann)
                THEN tags[k] = IF IsFirstOf(k, Covered(ann)) THEN "B-PROJECT"
                               ELSE "I-PROJECT"
                ELSE tags[k] = prev_tags[k]

\* C9 witness: a second PROJECT annotation rewrites a token the first had
\* tagged I-PROJECT to B-PROJECT while a token only the first overlaps keeps
\* its tag
C9_Witness ==
    /\ Aligned /\ n_project = 2 /\ ann.label = "PROJECT"
    /\ \E k \in Covered(ann) : prev_tags[k] = "I-PROJECT" /\ tags[k] = "B-PROJECT"
    /\ \E j \in 1..Len(tokens) : j \notin Covered(ann) /\ tags[j] = "B-PROJECT"

\* C10: the tag list is as long as the token list, and an I-PROJECT is never
\* first and never follows an O
C10_WellFormedBIO ==
    Aligned =>
        /\ Len(tags) = Len(tokens)
        /\ \A k \in 1..Len(tags) :
                tags[k] = "I-PROJECT" =>
                    (k > 1 /\ tags[k - 1] \in {"B-PROJECT", "I-PROJECT"})

\* C10 witness: two overlapping annotations have left B B I
C10_Witness ==
    /\ Aligned /\ n_project = 2
    /\ tags = <<"B-PROJECT", "B-PROJECT", "I-PROJECT">>


-----------------------------------------------------------------------------
(* simulate_llm_disambiguation; scores and confidences in units of 0.0001 *)

Bonus_WesternAustralia == 8000      \* score += 0.8
Bonus_Australia == 5000             \* score += 0.5
AcceptThreshold == 5000             \* max_score > 0.5
MaxConfidence == 10000              \* min(..., 1.0)
FallbackConfidence == 2500          \* "geolocation_confidence": 0.25
InitialMaxScore == -10000           \* max_score = -1

LocationCandidates ==
    { [name |-> Addr_Perth_WA, latitude |-> -32, longitude |-> 116],
      [name |-> Addr_Perth_UK, latitude |-> 56, longitude |-> -3],
      [name |-> Addr_Perth_AU, latitude |-> -31, longitude |-> 115],
      [name |-> Addr_WA, latitude |-> -25, longitude |-> 122] }

\* lines 44-48: the score of one candidate
Score(ctx, cand) ==
    LET cand_name_lower == lower(cand.name)
        context_lower == lower(ctx)
        in_name == Contains(cand_name_lower, Lit_western_australia)
        region ==
            IF Contains(context_lower, Lit_western_australia) /\ in_name
            THEN Bonus_WesternAustralia
            ELSE IF Contains(ctx, Lit_wa) /\ in_name
                 THEN Bonus_WesternAustralia
                 ELSE 0
        country ==
            IF Contains(context_lower, Lit_australia) /\ Contains(cand_name_lower, Lit_australia)
            THEN Bonus_Australia
            ELSE 0
    IN  region + country

\* lines 42-49: the loop keeping the first candidate of strictly highest score;
\* best is an index into cands, 0 for None
RECURSIVE BestLoop(_, _, _, _, _)
BestLoop(ctx, cands, k, best, max_score) ==
    IF k > Len(cands) THEN [best_candidate |-> best, max_score |-> max_score]
    ELSE LET score == Score(ctx, cands[k])
         IN  IF score > max_score
             THEN BestLoop(ctx, cands, k + 1, k, score)
             ELSE BestLoop(ctx, cands, k + 1, best, max_score)

Best(ctx, cands) == BestLoop(ctx, cands, 1, 0, InitialMaxScore)

\* variant: max_score >= 0.5
AcceptsAtThreshold(max_score) == max_score >= AcceptThreshold

\* line 51: max_score > 0.5
Accepts(max_score) == max_score > AcceptThreshold

\* line 52: min(round(max_score, 4), 1.0); a score is a whole number of 0.0001
Confidence(max_score) == Min(max_score, MaxConfidence)

\* variant: candidates[-1]
LastCandidate(cands) == cands[Len(cands)]

\* line 55: candidates[0]
FirstCandidate(cands) == cands[1]

NoValue == <<>>     \* Python's None as a chosen_location or as coordinates

simulate_llm_disambiguation(ctx, cands) ==
    IF cands = <<>>
    THEN [chosen_location |-> NoValue, coordinates |-> NoValue,
          geolocation_confidence |-> 0, justification |-> "no candidates"]
    ELSE LET b == Best(ctx, cands)
         IN  IF b.best_candidate # 0 /\ Accepts(b.max_score)
             THEN LET best_candidate == cands[b.best_candidate]
                  IN  [chosen_location |-> best_candidate.name,
                       coordinates |-> <<best_candidate.latitude, best_candidate.longitude>>,
                       geolocation_confidence |-> Confidence(b.max_score),
                       justification |-> "high contextual match"]
             ELSE LET first_cand == FirstCandidate(cands)
                  IN  [chosen_location |-> first_cand.name,
                       coordinates |-> <<first_cand.latitude, first_cand.longitude>>,
                       geolocation_confidence |-> FallbackConfidence,
                       justification |-> "ambiguous, first result"]

MaxCands == 2       \* longest candidate list given to the scorer

RECURSIVE SeqsUpTo(_, _)
SeqsUpTo(S, n) ==
    IF n = 0 THEN {<<>>}
    ELSE LET shorter == SeqsUpTo(S, n - 1)
         IN  shorter \cup {Append(q, x) : q \in {t \in shorter : Len(t) = n - 1}, x \in S}

NoResult == [chosen_location |-> NoValue, coordinates |-> NoValue,
             geolocation_confidence |-> 0, justification |-> "not called"]

Disambiguate ==
    /\ dpc = "idle"
    /\ dpc' = "done"
    /\ result' = simulate_llm_disambiguation(context, candidates)
    /\ UNCHANGED <<context, candidates>>
    /\ UNCHANGED <<ivars, pvars>>

\* a finished call is followed by a call on other arguments
NextCall ==
    /\ dpc = "done"
    /\ dpc' = "idle"
    /\ context' \in Contexts
    /\ candidates' \in SeqsUpTo(LocationCandidates, MaxCands)
    /\ result' = NoResult
    /\ UNCHANGED <<ivars, pvars>>

ScoreNext == Disambiguate \/ NextCall


-----------------------------------------------------------------------------
(* simulate_llm_location_extraction *)

Digits == {"0", "1", "2", "3", "4", "5", "6", "7", "8", "9"}

\* \w of the re module
IsWordChar(c) == IsLetter(c) \/ c \in Digits \/ c = "_"

\* the class [A-Za-z'-]
IsNameChar(c) == IsLetter(c) \/ c = "'" \/ c = "-"

\* \b at the 0-based offset p of s
Boundary(s, p) ==
    (p >= 1 /\ IsWordChar(s[p])) # (p < Len(s) /\ IsWordChar(s[p + 1]))

\* where the run [A-Za-z'-]* after the capital at offset w stops
RunEnd(s, w) ==
    CHOOSE r \in (w + 1)..Len(s) :
        /\ \A k \in (w + 2)..r : IsNameChar(s[k])
        /\ (r = Len(s) \/ ~IsNameChar(s[r + 1]))

\* the offsets at which [A-Z][A-Za-z'-]+(?: [A-Z][A-Za-z'-]+)* can stop when it
\* starts at offset w: inside or at the end of a word of two or more characters,
\* every earlier word taken whole and followed by one space
RECURSIVE MatchEnds(_, _)
MatchEnds(s, w) ==
    IF w + 1 > Len(s) \/ ~IsUpper(s[w + 1]) THEN {}
    ELSE LET r == RunEnd(s, w)
         IN  ((w + 2)..r) \cup
             (IF r + 1 <= Len(s) /\ s[r + 1] = Space /\ r > w + 1
              THEN MatchEnds(s, r + 1) ELSE {})

\* the end of the match starting at offset w, or -1: the quantifiers are greedy,
\* so the match is the longest one that ends at a \b
MatchAt(s, w) ==
    LET ends == {e \in MatchEnds(s, w) : Boundary(s, e)}
    IN  IF ~Boundary(s, w) \/ ends = {} THEN -1
        ELSE CHOOSE e \in ends : \A x \in ends : x <= e

\* re.findall: leftmost matches, non-overlapping, scanning from offset w
RECURSIVE FindAll(_, _, _)
FindAll(s, w, acc) ==
    IF w >= Len(s) THEN acc
    ELSE LET e == MatchAt(s, w)
         IN  IF e = -1 THEN FindAll(s, w + 1, acc)
             ELSE FindAll(s, e, Append(acc, SubSeq(s, w + 1, e)))

stop_words ==
    { <<"T", "h", "e">>,
      <<"A">>,
      <<"A", "n">>,
      <<"T", "h", "i", "s">>,
      <<"P", "r", "o", "j", "e", "c", "t">>,
      <<"C", "o", "m", "p", "a", "n", "y">> }

MinNameLen == 2     \* len(loc) > 2

\* the set of names returned (list(set(...)): the order of the list is not fixed)
simulate_llm_location_extraction(ctx) ==
    LET potential_locations == FindAll(ctx, 0, <<>>)
        locations == {potential_locations[k] : k \in
                        {j \in 1..Len(potential_locations) :
                            /\ potential_locations[j] \notin stop_words
                            /\ Len(potential_locations[j]) > MinNameLen}}
    IN  IF Contains(ctx, Lit_WA) /\ Lit_Western_Australia \notin locations
        THEN locations \cup {Lit_Western_Australia}
        ELSE locations

\* the function tabulated over the contexts of the model
ExtractionTable == [c \in Contexts |-> simulate_llm_location_extraction(c)]

-----------------------------------------------------------------------------
(* Claims about simulate_llm_disambiguation, checked under SpecScore *)

Called == dpc = "done"

HasWesternAustralia(cand) == Contains(lower(cand.name), Lit_western_australia)

\* C2: when the only cue of the context is the uppercase substring "WA" (no
\* "australia" in it in any case) and a candidate's name contains "western
\* australia", the call returns such a candidate with confidence 0.8.
C2_UppercaseWAScores ==
    (/\ Called
     /\ Contains(context, Lit_WA)
     /\ ~Contains(lower(context), Lit_australia)
     /\ \E k \in 1..Len(candidates) : HasWesternAustralia(candidates[k]))
    => /\ result.geolocation_confidence = Bonus_WesternAustralia
       /\ \E k \in 1..Len(candidates) :
            /\ HasWesternAustralia(candidates[k])
            /\ result.chosen_location = candidates[k].name

PerthAustraliaThenUK ==
    << [name |-> Addr_Perth_AU, latitude |-> -31, longitude |-> 115],
       [name |-> Addr_Perth_UK, latitude |-> 56, longitude |-> -3] >>

C3_Case == Called /\ context = Ctx_WA_Perth /\ candidates = PerthAustraliaThenUK

\* C3 as stated: on "The project lies in WA near Perth" with candidates
\* "Perth, Australia" then "Perth, UK", the first is picked with a score of at
\* least 0.5 and the confidence returned is above 0.5.
C3_AsStated ==
    C3_Case =>
        /\ result.chosen_location = Addr_Perth_AU
        /\ Best(context, candidates).max_score >= AcceptThreshold
        /\ result.geolocation_confidence > AcceptThreshold

\* C3 amended: on that input both candidates score 0, and the first candidate
\* is returned by the fallback, with its coordinates and confidence 0.25.
C3_FallbackOnPerth ==
    C3_Case =>
        /\ \A k \in 1..Len(candidates) : Score(context, candidates[k]) = 0
        /\ result.chosen_location = Addr_Perth_AU
        /\ result.coordinates = <<-31, 115>>
        /\ result.geolocation_confidence = FallbackConfidence
        /\ result.justification = "ambiguous, first result"

C3_Witness == C3_Case /\ result.chosen_location # NoValue

\* C4: on a non-empty list in which no candidate scores above 0.5 the call
\* returns the first candidate of the list, its coordinates and confidence
\* 0.25; when some candidate scores above 0.5 the confidence is not 0.25.
C4_FallbackFirst ==
    (Called /\ candidates # <<>>) =>
        IF \A k \in 1..Len(candidates) : Score(context, candidates[k]) <= AcceptThreshold
        THEN /\ result.chosen_location = candidates[1].name
             /\ result.coordinates = <<candidates[1].latitude, candidates[1].longitude>>
             /\ result.geolocation_confidence = FallbackConfidence
        ELSE result.geolocation_confidence # FallbackConfidence

\* C4 witness: the best score is exactly 0.5, held by the second candidate
\* only, and the first candidate is returned with 0.25
C4_Witness ==
    /\ Called /\ Len(candidates) = 2
    /\ Score(context, candidates[1]) = 0
    /\ Score(context, candidates[2]) = AcceptThreshold
    /\ result.chosen_location = candidates[1].name
    /\ result.geolocation_confidence = FallbackConfidence

-----------------------------------------------------------------------------
(* geocode_location and the geocoding backend *)

SleepSeconds == 1       \* time.sleep(1)
BackendLimit == 3       \* limit=3
RequestTimeout == 1     \* the timeout of the Nominatim client, in seconds

MaxCallSeconds == 1     \* longest time a backend request takes, in whole seconds

\* what geolocator.geocode can do: answer with locations, answer None, or raise
BackendAnswers ==
    { << [address |-> Addr_Perth_AU, latitude |-> -31, longitude |-> 115],
         [address |-> Addr_Perth_UK, latitude |-> 56, longitude |-> -3] >>,
      << [address |-> Addr_WA, latitude |-> -25, longitude |-> 122] >> }

BackendExceptions == {"GeocoderTimedOut", "GeocoderUnavailable", "GeocoderServiceError"}

BackendOutcomes ==
    {[kind |-> "locations", locations |-> a] : a \in BackendAnswers}
    \cup {[kind |-> "None", locations |-> <<>>]}
    \cup {[kind |-> e, locations |-> <<>>] : e \in BackendExceptions}

\* a request that times out has lasted the timeout; any other outcome can come at once
Durations(o) ==
    IF o.kind = "GeocoderTimedOut" THEN RequestTimeout..Max(RequestTimeout, MaxCallSeconds)
    ELSE 0..MaxCallSeconds

\* variant: the `except Exception` clause left out
CatchesNamedOnly(exc) == exc \in {"GeocoderTimedOut", "GeocoderUnavailable"}

\* lines 20 and 23: except (GeocoderTimedOut, GeocoderUnavailable), except Exception
Catches(exc) ==
    \/ exc \in {"GeocoderTimedOut", "GeocoderUnavailable"}
    \/ exc \in BackendExceptions

\* what a call returns, whether an exception leaves it, and whether it slept
geocode_location(o) ==
    IF o.kind = "locations"
    THEN [returned |-> [k \in 1..Min(Len(o.locations), BackendLimit) |->
                            [name |-> o.locations[k].address,
                             latitude |-> o.locations[k].latitude,
                             longitude |-> o.locations[k].longitude]],
          raised |-> FALSE, slept |-> TRUE]
    ELSE IF o.kind = "None"
    THEN [returned |-> <<>>, raised |-> FALSE, slept |-> TRUE]
    ELSE [returned |-> <<>>, raised |-> ~Catches(o.kind), slept |-> FALSE]

-----------------------------------------------------------------------------
(* main (steps 4 to 6), generate_ner_output, run_geolocation_pipeline *)

MaxRuns == 2            \* runs of main against the same output directory
MaxMentions == 2        \* PROJECT entities the tagger finds in one run

NoFile == [exists |-> FALSE, lines |-> <<>>]

\* context sentences of the mentions the tagger produces
MentionContexts == {Ctx_WA_Perth, Ctx_NoCue, Ctx_NoNames}

Mentions == [context_sentence : MentionContexts]

\* names bound in run_geolocation_pipeline and at module level of geolocator.py
LocalNames ==
    {"input_file", "output_file", "geolocator", "f_in", "records", "i", "record",
     "context", "location_names", "all_candidates", "name", "final_choice", "f_out"}
GlobalNames ==
    {"json", "os", "re", "time", "Nominatim", "GeocoderTimedOut", "GeocoderUnavailable",
     "geocode_location", "simulate_llm_location_extraction",
     "simulate_llm_disambiguation", "run_geolocation_pipeline"}

\* line 88: json.dump(record, f_out); f.write('\n')
NewlineWriter == "f"
Resolves(name) == name \in LocalNames \cup GlobalNames

NoCall == [outcome |-> "none", returned |-> <<>>, raised |-> FALSE]

\* main is started: by the user, again after it returned or after it died
StartMain ==
    /\ pc \in {"idle", "crashed"}
    /\ run < MaxRuns
    /\ run' = run + 1
    /\ pc' = "ner"
    /\ records' = <<>>
    /\ rec_i' = 0
    /\ location_names' = {}
    /\ all_candidates' = <<>>
    /\ since_call' = 0
    /\ call_gap' = 0
    /\ last_call' = NoCall
    /\ n_calls' = 0
    /\ n_failed' = 0
    /\ geolocated' = <<>>
    /\ UNCHANGED <<ner_file, out_file>>
    /\ UNCHANGED <<ivars, dvars>>

\* generate_ner_output: the output file is removed, then one record is appended
\* for every PROJECT entity the tagger finds
GenerateNerOutput ==
    /\ pc = "ner"
    /\ \E mentions \in SeqsUpTo(Mentions, MaxMentions) :
        ner_file' = IF mentions = <<>> THEN NoFile
                    ELSE [exists |-> TRUE, lines |-> mentions]
    /\ pc' = "geo"
    /\ UNCHANGED <<run, out_file, records, rec_i, location_names, all_candidates, since_call,
                   call_gap, last_call, n_calls, n_failed, geolocated>>
    /\ UNCHANGED <<ivars, dvars>>

\* run_geolocation_pipeline, lines 61-69
StartGeolocation ==
    /\ pc = "geo"
    /\ IF ~ner_file.exists
       THEN /\ pc' = "verify"
            /\ UNCHANGED <<out_file, records, rec_i>>
       ELSE /\ out_file' = NoFile
            /\ records' = ner_file.lines
            /\ rec_i' = 1
            /\ pc' = "record"
    /\ UNCHANGED <<run, ner_file, location_names, all_candidates, since_call, call_gap,
                   last_call, n_calls, n_failed, geolocated>>
    /\ UNCHANGED <<ivars, dvars>>

\* lines 71-78: the next record, its names; line 90 when there is none left
NextRecord ==
    /\ pc = "record"
    /\ IF rec_i > Len(records)
       THEN /\ pc' = "verify"
            /\ UNCHANGED <<rec_i, location_names, all_candidates>>
       ELSE LET names == ExtractionTable[records[rec_i].context_sentence]
            IN  IF names = {}
                THEN /\ rec_i' = rec_i + 1
                     /\ pc' = "record"
                     /\ UNCHANGED <<location_names, all_candidates>>
                ELSE /\ location_names' = names
                     /\ all_candidates' = <<>>
                     /\ pc' = "geocode"
                     /\ UNCHANGED rec_i
    /\ UNCHANGED <<run, ner_file, out_file, records, since_call, call_gap, last_call,
                   n_calls, n_failed, geolocated>>
    /\ UNCHANGED <<ivars, dvars>>

\* lines 79-80: one iteration of `for name in location_names`
Geocode ==
    /\ pc = "geocode"
    /\ \E name \in location_names, o \in BackendOutcomes :
        \E d \in Durations(o) :
            LET r == geocode_location(o)
            IN  /\ call_gap' = since_call
                /\ since_call' = d + (IF r.slept THEN SleepSeconds ELSE 0)
                /\ last_call' = [outcome |-> o.kind, returned |-> r.returned, raised |-> r.raised]
                /\ n_failed' = IF o.kind \in BackendExceptions THEN n_failed + 1 ELSE n_failed
                /\ location_names' = location_names \ {name}
                /\ IF r.raised
                   THEN /\ pc' = "crashed"
                        /\ UNCHANGED all_candidates
                   ELSE /\ all_candidates' = all_candidates \o r.returned
                        /\ pc' = IF location_names = {name} THEN "pooled" ELSE "geocode"
    /\ n_calls' = n_calls + 1
    /\ UNCHANGED <<run, ner_file, out_file, records, rec_i, geolocated>>
    /\ UNCHANGED <<ivars, dvars>>

\* lines 82-88: no candidate, or the choice, record.update and the append
EmitRecord ==
    /\ pc = "pooled"
    /\ IF all_candidates = <<>>
       THEN /\ rec_i' = rec_i + 1
            /\ pc' = "record"
            /\ UNCHANGED <<out_file, geolocated>>
       ELSE LET final_choice ==
                    simulate_llm_disambiguation(records[rec_i].context_sentence, all_candidates)
                written ==
                    [run |-> run, index |-> rec_i,
                     context_sentence |-> records[rec_i].context_sentence,
                     chosen_location |-> final_choice.chosen_location,
                     coordinates |-> final_choice.coordinates,
                     geolocation_confidence |-> final_choice.geolocation_confidence,
                     justification |-> final_choice.justification,
                     newline |-> Resolves(NewlineWriter)]
            IN  /\ geolocated' = Append(geolocated, rec_i)
                /\ out_file' = [exists |-> TRUE, lines |-> Append(out_file.lines, written)]
                /\ IF Resolves(NewlineWriter)
                   THEN rec_i' = rec_i + 1 /\ pc' = "record"
                   ELSE rec_i' = rec_i /\ pc' = "crashed"
    /\ UNCHANGED <<run, ner_file, records, location_names, all_candidates, since_call,
                   call_gap, last_call, n_calls, n_failed>>
    /\ UNCHANGED <<ivars, dvars>>

\* main, step 6: the final file is read back, or reported missing
Verify ==
    /\ pc = "verify"
    /\ pc' = "idle"
    /\ UNCHANGED <<run, ner_file, out_file, records, rec_i, location_names, all_candidates,
                   since_call, call_gap, last_call, n_calls, n_failed, geolocated>>
    /\ UNCHANGED <<ivars, dvars>>

PipeNext ==
    StartMain \/ GenerateNerOutput \/ StartGeolocation \/ NextRecord \/ Geocode
        \/ EmitRecord \/ Verify

-----------------------------------------------------------------------------
(* Claims about the geolocation run, checked under SpecPipe *)

\* C5: every backend call but the first of a run is issued at least one
\* second after the call before it was issued, whatever that call met.
C5_MinimumSpacing ==
    n_calls >= 2 => call_gap >= SleepSeconds

\* run_geolocation_pipeline has ended (returned or died) on an existing input file
GeolocationEnded == pc \in {"verify", "crashed"} /\ records # <<>>

\* C6: when the run over an existing input file has ended, every record was
\* visited and the output file holds, in input order, exactly one complete
\* line ending in a newline for each record whose pool was not empty.
C6_OneCompleteLinePerGeolocated ==
    GeolocationEnded =>
        /\ rec_i > Len(records)
        /\ Len(out_file.lines) = Len(geolocated)
        /\ \A k \in 1..Len(out_file.lines) :
            /\ k <= Len(geolocated)
            /\ out_file.lines[k].index = geolocated[k]
            /\ out_file.lines[k].chosen_location # NoValue
            /\ out_file.lines[k].newline

\* C7: a backend request that raises (timeout, unavailable, any other
\* exception) makes geocode_location return the empty list and raise nothing,
\* the pool is left as it was and the loop goes on with the next name or with
\* the pooled candidates; a record whose pool is empty writes nothing and the
\* loop goes on with the next record.
C7_BackendFailureIsAbsorbed ==
    [][ /\ (/\ pc = "geocode"
            /\ n_calls' = n_calls + 1
            /\ last_call'.outcome \in BackendExceptions)
           => /\ last_call'.returned = <<>>
              /\ ~last_call'.raised
              /\ all_candidates' = all_candidates
              /\ rec_i' = rec_i
              /\ pc' = IF location_names' = {} THEN "pooled" ELSE "geocode"
        /\ (pc = "pooled" /\ all_candidates = <<>>)
           => /\ pc' = "record"
              /\ rec_i' = rec_i + 1
              /\ out_file' = out_file ]_vars

\* C7 witness: every call made for the first record failed, the last of them
\* on an exception that is neither a timeout nor unavailability, and the run
\* is at its second record
C7_Witness ==
    /\ pc = "record" /\ rec_i = 2
    /\ n_calls >= 2 /\ n_failed = n_calls
    /\ last_call.outcome = "GeocoderServiceError"
    /\ last_call.returned = <<>>

\* a run of main has ended: it returned, or it died on an exception
MainEnded == run >= 1 /\ pc \in {"idle", "crashed"}

\* C8: when a run of main has ended, every line of the final output file was
\* written by that run.
C8_OnlyLatestRun ==
    MainEnded => \A k \in 1..Len(out_file.lines) : out_file.lines[k].run = run

-----------------------------------------------------------------------------
(* The three specifications. Each runs one part of the program; the variables
   of the other parts stay at their unused values. *)

\* convert_json_to_iob on one annotation record
IobInit ==
    /\ ipc = "idle"
    /\ text \in Texts
    /\ tokens = <<>>
    /\ token_spans = <<>>
    /\ tags = <<>>
    /\ ann = NoAnn
    /\ prev_tags = <<>>
    /\ n_anns = 0
    /\ n_project = 0
    /\ processed_records = <<>>
    /\ dpc = "unused"
    /\ context = <<>>
    /\ candidates = <<>>
    /\ result = NoResult
    /\ pc = "unused"
    /\ run = 0
    /\ ner_file = NoFile
    /\ out_file = NoFile
    /\ records = <<>>
    /\ rec_i = 0
    /\ location_names = {}
    /\ all_candidates = <<>>
    /\ since_call = 0
    /\ call_gap = 0
    /\ last_call = NoCall
    /\ n_calls = 0
    /\ n_failed = 0
    /\ geolocated = <<>>

SpecIob == IobInit /\ [][IobNext]_vars

\* simulate_llm_disambiguation on one context and candidate list
ScoreInit ==
    /\ dpc = "idle"
    /\ context \in Contexts
    /\ candidates \in SeqsUpTo(LocationCandidates, MaxCands)
    /\ result = NoResult
    /\ ipc = "unused"
    /\ text = <<>>
    /\ tokens = <<>>
    /\ token_spans = <<>>
    /\ tags = <<>>
    /\ ann = NoAnn
    /\ prev_tags = <<>>
    /\ n_anns = 0
    /\ n_project = 0
    /\ processed_records = <<>>
    /\ pc = "unused"
    /\ run = 0
    /\ ner_file = NoFile
    /\ out_file = NoFile
    /\ records = <<>>
    /\ rec_i = 0
    /\ location_names = {}
    /\ all_candidates = <<>>
    /\ since_call = 0
    /\ call_gap = 0
    /\ last_call = NoCall
    /\ n_calls = 0
    /\ n_failed = 0
    /\ geolocated = <<>>

SpecScore == ScoreInit /\ [][ScoreNext]_vars

\* runs of main, steps 4 to 6
PipeInit ==
    /\ pc = "idle"
    /\ run = 0
    /\ ner_file = NoFile
    /\ out_file = NoFile
    /\ records = <<>>
    /\ rec_i = 0
    /\ location_names = {}
    /\ all_candidates = <<>>
    /\ since_call = 0
    /\ call_gap = 0
    /\ last_call = NoCall
    /\ n_calls = 0
    /\ n_failed = 0
    /\ geolocated = <<>>
    /\ ipc = "unused"
    /\ text = <<>>
    /\ tokens = <<>>
    /\ token_spans = <<>>
    /\ tags = <<>>
    /\ ann = NoAnn
    /\ prev_tags = <<>>
    /\ n_anns = 0
    /\ n_project = 0
    /\ processed_records = <<>>
    /\ dpc = "unused"
    /\ context = <<>>
    /\ candidates = <<>>
    /\ result = NoResult

SpecPipe == PipeInit /\ [][PipeNext]_vars

====
